---- MODULE Spec2Model ----
(***************************************************************************)
(* Signal-generation engine of the Deriv signal bot                        *)
(* (server/signal-generator.ts): the rolling digit windows fed by ticks,   *)
(* the pattern analysis, and the periodic generation cycle with its        *)
(* asynchronous per-instrument emissions.                                  *)
(***************************************************************************)
EXTENDS Integers, Sequences, FiniteSets, TLC

(***************************************************************************)
(* Program constants                                                       *)
(***************************************************************************)
\* parseInt of a character that is not a decimal digit
NaN == -1
\* "Keep only the last 20 digits"
WindowCap == 20
\* digits.slice(-10)
RecentLen == 10
\* digits.length < 5
MinDigits == 5
\* default options
DefaultMaxSignals == 5
DefaultIntervalMinutes == 5
DefaultEntryCount == 3

(***************************************************************************)
(* Bounds of the model                                                     *)
(***************************************************************************)
\* free digits appended to a warm window when analysis inputs are enumerated
MaxLen == 4
\* largest entryAfterConsecutiveCount enumerated for the analysis
MaxThreshold == 4
\* length of the long warm window of the analysis inputs
WarmLen == 8
\* ticks already observed for a warm symbol when tick ingestion is explored
WarmTicks == 19
\* ticks delivered during tick-ingestion exploration
MaxTicks == 3
\* last minute of the clock when the scheduler is explored
MaxTime == 2
\* generation cycles in flight at once
MaxCycles == 2
\* ticks delivered while the scheduler is explored
MaxCycleTicks == 1
\* calls of setOptions, start and stop while the scheduler is explored
MaxCalls == 2
\* records of the performance table when the strategy choice is explored
MaxRecords == 3
\* last minute of the clock when consecutive cycles of one timer are explored
MaxLateTime == 3

Digits == 0..9
Min(a, b) == IF a < b THEN a ELSE b

(***************************************************************************)
(* Pattern analysis (analyzeDigitPattern)                                  *)
(***************************************************************************)
\* IsHigh with the boundary digit 5 on the low side
IsHighAbove5(d) == d # NaN /\ d > 5

\* d % 2 === 0, d % 2 === 1, d >= 5, d < 5: all false on NaN
IsEven(d) == d # NaN /\ d % 2 = 0
IsOdd(d) == d # NaN /\ d % 2 = 1
IsHigh(d) == d # NaN /\ d >= 5
IsLow(d) == d # NaN /\ d < 5

\* digits.slice(-n)
SliceLast(digits, n) ==
    IF Len(digits) <= n THEN digits
    ELSE SubSeq(digits, Len(digits) - n + 1, Len(digits))

recentDigits(digits) == SliceLast(digits, RecentLen)

\* recentDigits[recentDigits.length - 1]; undefined behaves as NaN below
LastDigit(recent) == IF Len(recent) = 0 THEN NaN ELSE recent[Len(recent)]

IsRunStrategy(name) == name \in {"Even/Odd", "Over/Under"}

sameType(name, current, prev) ==
    IF name = "Even/Odd"
    THEN (IsEven(current) /\ IsEven(prev)) \/ (IsOdd(current) /\ IsOdd(prev))
    ELSE IF name = "Over/Under"
    THEN (IsHigh(current) /\ IsHigh(prev)) \/ (IsLow(current) /\ IsLow(prev))
    ELSE FALSE

typeOf(name, current) ==
    IF name = "Even/Odd" THEN (IF IsEven(current) THEN "even" ELSE "odd")
    ELSE IF name = "Over/Under" THEN (IF IsHigh(current) THEN "over" ELSE "under")
    ELSE ""

\* the loop "for (let i = recentDigits.length - 1; i > 0; i--)": i is the
\* 1-based position of `current`, acc the value of the two loop variables
RECURSIVE consecutiveLoop(_, _, _, _)
consecutiveLoop(recent, name, i, acc) ==
    IF i < 2 THEN acc
    ELSE IF ~IsRunStrategy(name) THEN acc
    ELSE LET t == typeOf(name, recent[i])
         IN IF sameType(name, recent[i], recent[i - 1])
            THEN consecutiveLoop(recent, name, i - 1,
                                 [count |-> acc.count + 1, type |-> t])
            ELSE [count |-> acc.count, type |-> t]

\* consecutive with the count started at 0 instead of 1
consecutiveFromZero(recent, name) ==
    consecutiveLoop(recent, name, Len(recent), [count |-> 0, type |-> ""])

consecutive(recent, name) ==
    consecutiveLoop(recent, name, Len(recent), [count |-> 1, type |-> ""])

\* counts = new Array(10).fill(0); recentDigits.forEach(d => counts[d]++)
digitCounts(recent) ==
    [d \in Digits |-> Cardinality({k \in DOMAIN recent : recent[k] = d})]

\* the scan "for (let i = 0; i < counts.length; i++)" over both variables
RECURSIVE frequentLoop(_, _, _, _)
frequentLoop(counts, i, most, least) ==
    IF i > 9 THEN [mostFrequent |-> most, leastFrequent |-> least]
    ELSE LET m == IF counts[i] > counts[most] THEN i ELSE most
             l == IF counts[i] < counts[least] \/ counts[least] = 0
                  THEN i ELSE least
         IN frequentLoop(counts, i + 1, m, l)

\* frequent with ">=" for mostFrequent: on a tie the largest digit wins
RECURSIVE frequentLoopTieLast(_, _, _, _)
frequentLoopTieLast(counts, i, most, least) ==
    IF i > 9 THEN [mostFrequent |-> most, leastFrequent |-> least]
    ELSE LET m == IF counts[i] >= counts[most] THEN i ELSE most
             l == IF counts[i] < counts[least] \/ counts[least] = 0
                  THEN i ELSE least
         IN frequentLoopTieLast(counts, i + 1, m, l)
frequentTieLast(counts) == frequentLoopTieLast(counts, 0, 0, 0)

\* frequent without "|| counts[leastFrequent] === 0": the first digit with
\* the lowest count is kept
RECURSIVE frequentLoopFirstLeast(_, _, _, _)
frequentLoopFirstLeast(counts, i, most, least) ==
    IF i > 9 THEN [mostFrequent |-> most, leastFrequent |-> least]
    ELSE LET m == IF counts[i] > counts[most] THEN i ELSE most
             l == IF counts[i] < counts[least] THEN i ELSE least
         IN frequentLoopFirstLeast(counts, i + 1, m, l)
frequentFirstLeast(counts) == frequentLoopFirstLeast(counts, 0, 0, 0)

frequent(counts) == frequentLoop(counts, 0, 0, 0)

Null == [predictedSignal |-> "null", digit |-> NaN, count |-> 0, type |-> ""]

\* analyzeDigitPattern with a final else for "Matches/Differs": every name that
\* is not a run strategy gets the frequency analysis
analyzeDigitPatternAnyName(digits, name, threshold) ==
    LET recent == recentDigits(digits)
        run == consecutive(recent, name)
        last == LastDigit(recent)
        counts == digitCounts(recent)
        f == frequent(counts)
    IN IF name = "Even/Odd"
       THEN IF run.count >= threshold
            THEN [predictedSignal |-> IF IsEven(last) THEN "ODD" ELSE "EVEN",
                  digit |-> NaN, count |-> run.count, type |-> run.type]
            ELSE Null
       ELSE IF name = "Over/Under"
       THEN IF run.count >= threshold
            THEN [predictedSignal |-> IF IsHigh(last) THEN "UNDER" ELSE "OVER",
                  digit |-> NaN, count |-> run.count, type |-> run.type]
            ELSE Null
       ELSE IF counts[f.mostFrequent] >= threshold
       THEN [predictedSignal |-> "DIFFERS", digit |-> f.mostFrequent,
             count |-> counts[f.mostFrequent], type |-> ""]
       ELSE IF counts[f.leastFrequent] = 0
       THEN [predictedSignal |-> "MATCHES", digit |-> f.leastFrequent,
             count |-> Len(recent), type |-> ""]
       ELSE Null

\* analyzeDigitPattern that tests for an unseen digit before it tests the
\* most frequent digit against the threshold
analyzeDigitPatternMatchesFirst(digits, name, threshold) ==
    LET recent == recentDigits(digits)
        run == consecutive(recent, name)
        last == LastDigit(recent)
    IN CASE name = "Even/Odd" ->
              IF run.count >= threshold
              THEN [predictedSignal |-> IF IsEven(last) THEN "ODD" ELSE "EVEN",
                    digit |-> NaN, count |-> run.count, type |-> run.type]
              ELSE Null
         [] name = "Over/Under" ->
              IF run.count >= threshold
              THEN [predictedSignal |-> IF IsHigh(last) THEN "UNDER" ELSE "OVER",
                    digit |-> NaN, count |-> run.count, type |-> run.type]
              ELSE Null
         [] name = "Matches/Differs" ->
              LET counts == digitCounts(recent)
                  f == frequent(counts)
              IN IF counts[f.leastFrequent] = 0
                 THEN [predictedSignal |-> "MATCHES", digit |-> f.leastFrequent,
                       count |-> Len(recent), type |-> ""]
                 ELSE IF counts[f.mostFrequent] >= threshold
                 THEN [predictedSignal |-> "DIFFERS", digit |-> f.mostFrequent,
                       count |-> counts[f.mostFrequent], type |-> ""]
                 ELSE Null
         [] OTHER -> Null

analyzeDigitPattern(digits, name, threshold) ==
    LET recent == recentDigits(digits)
        run == consecutive(recent, name)
        last == LastDigit(recent)
    IN CASE name = "Even/Odd" ->
              IF run.count >= threshold
              THEN [predictedSignal |-> IF IsEven(last) THEN "ODD" ELSE "EVEN",
                    digit |-> NaN, count |-> run.count, type |-> run.type]
              ELSE Null
         [] name = "Over/Under" ->
              IF run.count >= threshold
              THEN [predictedSignal |-> IF IsHigh(last) THEN "UNDER" ELSE "OVER",
                    digit |-> NaN, count |-> run.count, type |-> run.type]
              ELSE Null
         [] name = "Matches/Differs" ->
              LET counts == digitCounts(recent)
                  f == frequent(counts)
              IN IF counts[f.mostFrequent] >= threshold
                 THEN [predictedSignal |-> "DIFFERS", digit |-> f.mostFrequent,
                       count |-> counts[f.mostFrequent], type |-> ""]
                 ELSE IF counts[f.leastFrequent] = 0
                 THEN [predictedSignal |-> "MATCHES", digit |-> f.leastFrequent,
                       count |-> Len(recent), type |-> ""]
                 ELSE Null
         [] OTHER -> Null

\* signalDraft with the guard one digit short
signalDraftFrom4(digits, name, threshold) ==
    IF Len(digits) < MinDigits - 1 THEN Null
    ELSE analyzeDigitPattern(digits, name, threshold)

\* generateSignalForStrategy up to the draft: the length guard, then the analysis
signalDraft(digits, name, threshold) ==
    IF Len(digits) < MinDigits THEN Null
    ELSE analyzeDigitPattern(digits, name, threshold)

(***************************************************************************)
(* State                                                                   *)
(***************************************************************************)
VARIABLES
    \* priceHistory.lastDigits: symbol -> digit window (only symbols seen)
    lastDigits,
    \* history: per symbol, every value handleTick has pushed, in arrival order
    observed,
    \* history: number of tick events delivered
    ticksSeen,
    \* one invocation of the analysis: its arguments, the method called, its result
    input,
    call,
    result,
    \* bestStrategy of the index loop: index id -> what findBestStrategy returned
    bestStrategy,
    \* this.options
    options,
    \* this.timers: the interval timers, each with its period and next due time
    timers,
    \* the clock, in minutes since the process started
    now,
    \* this.lastSignalTime: symbol -> time (only symbols that emitted)
    lastSignalTime,
    \* the invocations of generateSignalsForAllIndexes that have not returned
    cycles,
    \* the store: the signals table, and the strategy performance table
    signals,
    performance,
    \* the new_signal events emitted so far
    published,
    \* history: number of setOptions, start and stop calls and settings requests made
    calls,
    \* history: stop() was called and start() has not been called since
    stopped,
    \* history: the options as they were at the last start(), and its time
    appliedOptions,
    startedAt,
    \* history: the last call made from outside: the method or route, and for
    \* PUT /signal-generator/settings the request body and the response status
    lastCall,
    \* history: the start time of the last cycle that returned before its loop,
    \* on a failed listing or an empty list of indexes (0: none has)
    aborted

tickVars == <<lastDigits, observed, ticksSeen>>
analysisVars == <<input, call, result, bestStrategy>>
histVars == <<stopped, appliedOptions, startedAt, lastCall>>
schedVars == <<options, timers, now, lastSignalTime, cycles, signals, performance,
               published, calls, histVars, aborted>>
vars == <<lastDigits, observed, ticksSeen, input, call, result, bestStrategy, options, timers, now,
          lastSignalTime, cycles, signals, performance, published, calls,
          stopped, appliedOptions, startedAt, lastCall, aborted>>

Symbols == {"VOL10", "VOL25"}

\* a window the ticks 2,3,4,5,6,7,8,0,1,9,2,... leave behind
WarmDigits == <<2, 3, 4, 5, 6, 7, 8, 0, 1, 9>>
WarmWindow(n) == [i \in 1..n |-> WarmDigits[((i - 1) % 10) + 1]]

NoInput == [digits |-> <<>>, strategyName |-> "", threshold |-> DefaultEntryCount]

DefaultOptions ==
    [maxSignals |-> DefaultMaxSignals, intervalMinutes |-> DefaultIntervalMinutes,
     entryAfterConsecutiveCount |-> DefaultEntryCount]

\* no call has been made
NoCall == [op |-> "none", settings |-> <<>>, status |-> 0, seq |-> 0]

\* the scheduler as the constructor leaves it, over an empty store
Constructed ==
    /\ options = DefaultOptions
    /\ timers = <<>>
    /\ now = 0
    /\ lastSignalTime = <<>>
    /\ cycles = <<>>
    /\ signals = <<>>
    /\ published = <<>>
    /\ calls = 0
    /\ stopped = FALSE
    /\ appliedOptions = DefaultOptions
    /\ startedAt = 0
    /\ lastCall = NoCall
    /\ aborted = 0

NoAnalysis ==
    /\ input = NoInput
    /\ call = "none"
    /\ result = Null
    /\ bestStrategy = <<>>

(***************************************************************************)
(* Tick ingestion (handleTick)                                             *)
(***************************************************************************)
DigitChars == {"0", "1", "2", "3", "4", "5", "6", "7", "8", "9"}
DigitOf ==
    ("0" :> 0) @@ ("1" :> 1) @@ ("2" :> 2) @@ ("3" :> 3) @@ ("4" :> 4) @@
    ("5" :> 5) @@ ("6" :> 6) @@ ("7" :> 7) @@ ("8" :> 8) @@ ("9" :> 9)

\* parseInt(price.charAt(price.length - 1))
parseInt(ch) == IF ch \in DigitChars THEN DigitOf[ch] ELSE NaN

\* lastDigits.get(symbol) || []
window(symbol) ==
    IF symbol \in DOMAIN lastDigits THEN lastDigits[symbol] ELSE <<>>

\* pushDigit with the eviction left out
pushDigitNoEvict(digits, lastDigit) == Append(digits, lastDigit)

\* pushDigit with pop() for shift(): the newest entry is dropped
pushDigitDropNewest(digits, lastDigit) ==
    LET pushed == Append(digits, lastDigit)
    IN IF Len(pushed) > WindowCap THEN SubSeq(pushed, 1, Len(pushed) - 1) ELSE pushed

\* digits.push(lastDigit); if (digits.length > 20) digits.shift()
pushDigit(digits, lastDigit) ==
    LET pushed == Append(digits, lastDigit)
    IN IF Len(pushed) > WindowCap THEN Tail(pushed) ELSE pushed

\* A tick event. hasTick = FALSE: the payload lacks tick or quote, so reading
\* it throws and the catch drops the event before anything is changed.
TickChars == {"4", "9", "N"}
TickData ==
    [hasTick : {TRUE}, symbol : Symbols, lastChar : TickChars]
        \cup {[hasTick |-> FALSE, symbol |-> "", lastChar |-> ""]}

handleTick(data) ==
    /\ ticksSeen' = ticksSeen + 1
    /\ IF data.hasTick
       THEN LET lastDigit == parseInt(data.lastChar)
                digits == pushDigit(window(data.symbol), lastDigit)
            IN /\ lastDigits' = [s \in DOMAIN lastDigits \cup {data.symbol} |->
                                    IF s = data.symbol THEN digits ELSE lastDigits[s]]
               /\ observed' = [observed EXCEPT ![data.symbol] = Append(@, lastDigit)]
       ELSE UNCHANGED <<lastDigits, observed>>

(***************************************************************************)
(* Specification of tick ingestion alone: some symbols already hold a      *)
(* window of WarmTicks digits, then up to MaxTicks tick events arrive.     *)
(***************************************************************************)
InitTick ==
    /\ \E warm \in SUBSET Symbols :
          /\ lastDigits = [s \in warm |-> WarmWindow(WarmTicks)]
          /\ observed = [s \in Symbols |->
                            IF s \in warm THEN WarmWindow(WarmTicks) ELSE <<>>]
    /\ ticksSeen = 0
    /\ NoAnalysis
    /\ Constructed
    /\ performance = <<>>

Tick ==
    /\ ticksSeen < MaxTicks
    /\ \E data \in TickData : handleTick(data)
    /\ UNCHANGED <<analysisVars, schedVars>>

NextTick == Tick

SpecTick == InitTick /\ [][NextTick]_vars

\* every value pushed for the symbol so far was a decimal digit
WellFormed(symbol) == \A k \in DOMAIN observed[symbol] : observed[symbol][k] \in Digits

\* C3: for every symbol, after any sequence of tick events, the symbol's
\* digit window holds at most 20 entries.
C3_WindowAtMost20 ==
    \A s \in DOMAIN lastDigits : Len(lastDigits[s]) <= 20

\* a window that is full after more than 20 pushes, so that an eviction happened
C3_Witness ==
    \E s \in DOMAIN lastDigits :
        Len(observed[s]) > 20 /\ Len(lastDigits[s]) = 20 /\ ticksSeen >= 2

\* C4: after n well-formed ticks for a symbol, its window is exactly the last
\* min(n, 20) observed last-digits, in arrival order (strict FIFO eviction).
C4_WindowIsLastObserved ==
    \A s \in Symbols :
        WellFormed(s) =>
            LET n == Len(observed[s])
                m == Min(n, 20)
            IN /\ Len(window(s)) = m
               /\ \A k \in 1..m : window(s)[k] = observed[s][n - m + k]

\* well-formed ticks only, more than 20 of them, the latest ones differing
C4_Witness ==
    \E s \in Symbols :
        /\ WellFormed(s)
        /\ Len(observed[s]) >= 22
        /\ observed[s][Len(observed[s])] # observed[s][Len(observed[s]) - 1]
        /\ ticksSeen >= 2

(***************************************************************************)
(* Specification of the analysis alone: the arguments are drawn from       *)
(* bounded sets, then either analyzeDigitPattern is applied to them or     *)
(* generateSignalForStrategy's guarded path is.                            *)
(***************************************************************************)
StrategyNames == {"Even/Odd", "Over/Under", "Matches/Differs", "Candlestick"}
FreeDigits == {1, 4, 5, 9}
FreeWindows == UNION {[1..n -> FreeDigits] : n \in 0..MaxLen}
PadLens == {0, 3, WarmLen}
AnalysisWindows == {WarmWindow(p) \o w : p \in PadLens, w \in FreeWindows}

InitAnalyze ==
    /\ input \in [digits : AnalysisWindows, strategyName : StrategyNames,
                  threshold : 1..MaxThreshold]
    /\ call = "none"
    /\ result = Null
    /\ bestStrategy = <<>>
    /\ lastDigits = <<>>
    /\ observed = [s \in Symbols |-> <<>>]
    /\ ticksSeen = 0
    /\ Constructed
    /\ performance = <<>>

CallAnalyzeDigitPattern ==
    /\ call = "none"
    /\ call' = "analyzeDigitPattern"
    /\ result' = analyzeDigitPattern(input.digits, input.strategyName, input.threshold)
    /\ UNCHANGED <<input, bestStrategy, tickVars, schedVars>>

CallGenerateSignalForStrategy ==
    /\ call = "none"
    /\ call' = "generateSignalForStrategy"
    /\ result' = signalDraft(input.digits, input.strategyName, input.threshold)
    /\ UNCHANGED <<input, bestStrategy, tickVars, schedVars>>

NextAnalyze == CallAnalyzeDigitPattern \/ CallGenerateSignalForStrategy

SpecAnalyze == InitAnalyze /\ [][NextAnalyze]_vars

\* The claims' own reading of a window: its last 10 digits, the run of
\* same-class digits at its end, and how often a digit occurs in it.
Last10(digits) ==
    [k \in 1..Min(Len(digits), 10) |-> digits[Len(digits) - Min(Len(digits), 10) + k]]
SameParity(a, b) == (a % 2) = (b % 2)
SameSide(a, b) == (a >= 5) <=> (b >= 5)
TrailingRun(w, Same(_, _)) ==
    CHOOSE k \in 1..Len(w) :
        /\ \A j \in (Len(w) - k + 1)..Len(w) : Same(w[j], w[Len(w)])
        /\ k = Len(w) \/ ~Same(w[Len(w) - k], w[Len(w)])
Occurrences(w, d) == Cardinality({k \in 1..Len(w) : w[k] = d})
Analyzed == call # "none"
\* analyze was given the window: directly, or past the guard of its caller
Reached == call = "analyzeDigitPattern"
               \/ (call = "generateSignalForStrategy" /\ Len(input.digits) >= 5)

\* C5: for every digit sequence shorter than 5, every strategy name and
\* every threshold, the analysis yields no signal.
C5_ShortWindowNoSignal ==
    (call = "generateSignalForStrategy" /\ Len(input.digits) < 5) => result = Null

\* a short window whose run would otherwise have produced a signal
C5_Witness ==
    /\ call = "generateSignalForStrategy"
    /\ Len(input.digits) = 4
    /\ analyzeDigitPattern(input.digits, input.strategyName, input.threshold) # Null

\* C6: Even/Odd on a window of at least 5 digits yields a signal iff the run
\* of same-parity digits at the end of the last 10 digits is at least the
\* threshold long; the signal is ODD after an even last digit, else EVEN.
C6_EvenOdd ==
    (Analyzed /\ input.strategyName = "Even/Odd" /\ Len(input.digits) >= 5) =>
        LET w == Last10(input.digits)
        IN /\ (result # Null) <=> (TrailingRun(w, SameParity) >= input.threshold)
           /\ result # Null =>
                result.predictedSignal = IF w[Len(w)] % 2 = 0 THEN "ODD" ELSE "EVEN"

\* an EVEN signal from a window longer than 10 whose run just meets the threshold
C6_Witness ==
    /\ Analyzed /\ input.strategyName = "Even/Odd" /\ Len(input.digits) > 10
    /\ result.predictedSignal = "EVEN"
    /\ TrailingRun(Last10(input.digits), SameParity) = input.threshold
    /\ input.threshold >= 3

\* C7: Over/Under on a window of at least 5 digits yields a signal iff the
\* run of same-side digits (>= 5 against < 5) at the end of the last 10
\* digits is at least the threshold long; the signal is UNDER after a last
\* digit >= 5, else OVER.
C7_OverUnder ==
    (Analyzed /\ input.strategyName = "Over/Under" /\ Len(input.digits) >= 5) =>
        LET w == Last10(input.digits)
        IN /\ (result # Null) <=> (TrailingRun(w, SameSide) >= input.threshold)
           /\ result # Null =>
                result.predictedSignal = IF w[Len(w)] >= 5 THEN "UNDER" ELSE "OVER"

\* an UNDER signal whose run of high digits ends in 5 and mixes parities
C7_Witness ==
    /\ Analyzed /\ input.strategyName = "Over/Under" /\ Len(input.digits) >= 5
    /\ result.predictedSignal = "UNDER"
    /\ input.digits[Len(input.digits)] = 5
    /\ input.digits[Len(input.digits) - 1] = 9
    /\ input.threshold >= 3

\* C8: Matches/Differs yields DIFFERS whenever some digit occurs at least
\* threshold times in the last 10 digits, on the digit with the highest
\* count, the smallest such digit on a tie, also when some digit is unseen.
C8_Differs ==
    (Reached /\ input.strategyName = "Matches/Differs") =>
        LET w == Last10(input.digits)
        IN (\E d \in Digits : Occurrences(w, d) >= input.threshold) =>
              /\ result.predictedSignal = "DIFFERS"
              /\ \A d \in Digits : Occurrences(w, d) <= Occurrences(w, result.digit)
              /\ \A d \in Digits : Occurrences(w, d) = Occurrences(w, result.digit)
                                      => result.digit <= d

\* DIFFERS on a tie for the highest count while digit 9 is unseen
C8_Witness ==
    /\ Reached /\ input.strategyName = "Matches/Differs"
    /\ result.predictedSignal = "DIFFERS"
    /\ input.threshold >= 2
    /\ LET w == Last10(input.digits)
       IN /\ Occurrences(w, 9) = 0
          /\ \E d \in Digits : d # result.digit
                /\ Occurrences(w, d) = Occurrences(w, result.digit)

\* C9: Matches/Differs, when no digit's count reaches the threshold and some
\* digit is unseen in the last 10 digits, yields MATCHES on the smallest
\* unseen digit.
C9_MatchesFirstUnseen ==
    (call = "generateSignalForStrategy" /\ Len(input.digits) >= 5
        /\ input.strategyName = "Matches/Differs") =>
        LET w == Last10(input.digits)
        IN ((\A d \in Digits : Occurrences(w, d) < input.threshold)
               /\ (\E d \in Digits : Occurrences(w, d) = 0)) =>
              /\ result.predictedSignal = "MATCHES"
              /\ Occurrences(w, result.digit) = 0
              /\ \A d \in Digits : Occurrences(w, d) = 0 => result.digit <= d

\* C10: Matches/Differs on a 10-digit window in which 9 never appears and
\* no digit's count reaches the threshold yields MATCHES on digit 9,
\* whichever other digits are unseen.
C10_MatchesNine ==
    (Reached /\ input.strategyName = "Matches/Differs"
        /\ Len(input.digits) >= 10) =>
        LET w == Last10(input.digits)
        IN ((\A d \in Digits : Occurrences(w, d) < input.threshold)
               /\ Occurrences(w, 9) = 0) =>
              /\ result.predictedSignal = "MATCHES"
              /\ result.digit = 9

\* MATCHES on 9 from a 10-digit window in which a smaller digit is unseen too
C10_Witness ==
    /\ Reached /\ input.strategyName = "Matches/Differs"
    /\ Len(input.digits) >= 10
    /\ result.predictedSignal = "MATCHES" /\ result.digit = 9
    /\ \E d \in 0..8 : Occurrences(Last10(input.digits), d) = 0

Indexes == <<[id |-> 1, symbol |-> "VOL10"], [id |-> 2, symbol |-> "VOL25"]>>

\* the lists the call can resolve to: the indexes, or none when the table is empty
IndexLists == {Indexes, <<>>}

\* contents of the strategy performance table
PerformanceA ==
    <<[id |-> 1, volatilityIndexId |-> 1, strategyName |-> "Matches/Differs", winRate |-> "62%"],
      [id |-> 2, volatilityIndexId |-> 2, strategyName |-> "Even/Odd", winRate |-> "68%"],
      [id |-> 3, volatilityIndexId |-> 2, strategyName |-> "Matches/Differs", winRate |-> "75%"]>>
PerformanceB ==
    <<[id |-> 1, volatilityIndexId |-> 1, strategyName |-> "Over/Under", winRate |-> "70%"],
      [id |-> 2, volatilityIndexId |-> 1, strategyName |-> "Candlestick", winRate |-> "75%"]>>
PerformanceTables == {PerformanceA, PerformanceB}

\* parseFloat(winRate.replace('%', ''))
parseFloat == ("62%" :> 62) @@ ("68%" :> 68) @@ ("70%" :> 70) @@ ("75%" :> 75)

\* the partial option objects callers pass to setOptions
OptionUpdates ==
    {("intervalMinutes" :> 1), ("maxSignals" :> 1) @@ ("intervalMinutes" :> 1)}

\* { ...this.options, ...options }
mergeOptions(current, partial) ==
    [k \in DOMAIN current |-> IF k \in DOMAIN partial THEN partial[k] ELSE current[k]]

setOptions(partial) ==
    /\ options' = mergeOptions(options, partial)
    /\ UNCHANGED <<timers, now, lastSignalTime, cycles, signals, performance, published>>

\* clearTimers that forgets the timers without clearInterval: they stay
\* active in the event loop, which is what the variable timers lists
clearTimersForgets(active) == active

\* this.timers.forEach(timer => clearInterval(timer)); this.timers = []
clearTimers(active) == <<>>

\* stop()
stop ==
    /\ timers' = clearTimers(timers)
    /\ UNCHANGED <<options, now, lastSignalTime, cycles, signals, performance, published>>

\* setInterval(callback, intervalMinutes * 60 * 1000)
setInterval(intervalMinutes) ==
    [period |-> intervalMinutes, due |-> now + intervalMinutes]

\* restartTimers without the stop() of line 68: the timers already set stay active
restartTimersNoStop(active, current) ==
    Append(active, setInterval(current.intervalMinutes))

\* the body of start(): stop(), then one setInterval of the current
\* intervalMinutes pushed on this.timers
restartTimers(active, current) ==
    Append(clearTimers(active), setInterval(current.intervalMinutes))

\* start()
start ==
    /\ timers' = restartTimers(timers, options)
    /\ UNCHANGED <<options, now, lastSignalTime, cycles, signals, performance, published>>

\* isNaN(value): of the values a request carries only NaN is not a number
isNaN(value) == value = NaN

\* outOfRange without the test against the upper limit
outOfRangeNoUpper(settings, field, lo, hi) ==
    /\ field \in DOMAIN settings
    /\ (isNaN(settings[field]) \/ settings[field] < lo)

\* settings.f !== undefined && (isNaN(settings.f) || settings.f < lo || settings.f > hi)
outOfRange(settings, field, lo, hi) ==
    /\ field \in DOMAIN settings
    /\ (isNaN(settings[field]) \/ settings[field] < lo \/ settings[field] > hi)

\* the three validations of the route, any of which answers 400
rejected(settings) ==
    \/ outOfRange(settings, "maxSignals", 1, 10)
    \/ outOfRange(settings, "intervalMinutes", 1, 60)
    \/ outOfRange(settings, "entryAfterConsecutiveCount", 1, 10)

\* PUT /signal-generator/settings: validate, then setOptions, stop, start
putSettings(settings) ==
    /\ IF rejected(settings)
       THEN /\ lastCall' = [op |-> "putSettings", settings |-> settings, status |-> 400,
                            seq |-> calls + 1]
            /\ UNCHANGED <<options, timers>>
       ELSE /\ lastCall' = [op |-> "putSettings", settings |-> settings, status |-> 200,
                            seq |-> calls + 1]
            /\ options' = mergeOptions(options, settings)
            /\ timers' = restartTimers(clearTimers(timers), mergeOptions(options, settings))
    /\ UNCHANGED <<now, lastSignalTime, cycles, signals, performance, published>>

\* strategyByIndex.get(index.id) || []
indexStrategies(strategies, id) ==
    SelectSeq(strategies, LAMBDA r : r.volatilityIndexId = id)

\* the comparator (a, b) => bRate - aRate
compareByWinRate(a, b) == parseFloat[b.winRate] - parseFloat[a.winRate]

\* sortByWinRate with "<" for "<=": a record goes before the records it ties with
RECURSIVE sortByWinRateTieLast(_)
sortByWinRateTieLast(strategies) ==
    IF Len(strategies) = 0 THEN <<>>
    ELSE LET front == sortByWinRateTieLast(SubSeq(strategies, 1, Len(strategies) - 1))
             r == strategies[Len(strategies)]
             k == Cardinality({i \in DOMAIN front : compareByWinRate(front[i], r) < 0})
         IN SubSeq(front, 1, k) \o <<r>> \o SubSeq(front, k + 1, Len(front))

\* strategies.slice().sort(comparator): Array.prototype.sort is stable, so each
\* record ends up after the earlier records the comparator does not put
\* behind it (comparator <= 0), which are a prefix of the sorted front
RECURSIVE sortByWinRate(_)
sortByWinRate(strategies) ==
    IF Len(strategies) = 0 THEN <<>>
    ELSE LET front == sortByWinRate(SubSeq(strategies, 1, Len(strategies) - 1))
             r == strategies[Len(strategies)]
             k == Cardinality({i \in DOMAIN front : compareByWinRate(front[i], r) <= 0})
         IN SubSeq(front, 1, k) \o <<r>> \o SubSeq(front, k + 1, Len(front))

\* what findBestStrategy returns for an empty list: null
NoStrategy == [id |-> 0, volatilityIndexId |-> 0, strategyName |-> "", winRate |-> ""]

\* findBestStrategy over the sort that puts a record before its ties
findBestStrategyTieLast(strategies) ==
    IF Len(strategies) = 0 THEN NoStrategy ELSE sortByWinRateTieLast(strategies)[1]

\* if (strategies.length === 0) return null; return sorted[0]
findBestStrategy(strategies) ==
    IF Len(strategies) = 0 THEN NoStrategy ELSE sortByWinRate(strategies)[1]

\* an entry of the loop's bookkeeping for one index: how far its attempt is,
\* the strategy chosen, the array read at line 222, the draft, the stored id
Skipped == [state |-> "skipped", strategyName |-> "", digits |-> <<>>,
            predictedSignal |-> "", id |-> 0, emailSent |-> FALSE]

\* generateSignalForStrategy up to its first await: the window is read and
\* analysed, and storage.createSignal is called when there is a draft;
\* without one the promise resolves to false and the then-callback does nothing
beginSignal(index, strategy) ==
    LET draft == signalDraft(window(index.symbol), strategy.strategyName,
                             options.entryAfterConsecutiveCount)
    IN IF draft = Null
       THEN [Skipped EXCEPT !.state = "settled", !.strategyName = strategy.strategyName,
                            !.digits = window(index.symbol)]
       ELSE [Skipped EXCEPT !.state = "createSignal",
                            !.strategyName = strategy.strategyName,
                            !.digits = window(index.symbol),
                            !.predictedSignal = draft.predictedSignal]

\* timeElapsed < minInterval, with new Date(0) for a symbol that never emitted
inCooldown(symbol) ==
    /\ symbol \in DOMAIN lastSignalTime
    /\ now - lastSignalTime[symbol] < options.intervalMinutes

\* the loop "for (const index of indexes)". It runs to its end without
\* yielding, so no then-callback runs meanwhile and generatedCount keeps the
\* value it has when the loop starts.
RECURSIVE indexLoop(_, _, _, _, _)
indexLoop(indexes, strategies, i, generatedCount, tasks) ==
    IF i > Len(indexes) THEN tasks
    ELSE IF generatedCount >= options.maxSignals THEN tasks
    ELSE LET index == indexes[i]
             mine == indexStrategies(strategies, index.id)
         IN IF inCooldown(index.symbol) \/ Len(mine) = 0
            THEN indexLoop(indexes, strategies, i + 1, generatedCount, tasks)
            ELSE indexLoop(indexes, strategies, i + 1, generatedCount,
                           [tasks EXCEPT ![i] = beginSignal(index, findBestStrategy(mine))])

\* digits.slice(-10) with splice for slice: the last 10 digits are taken out
\* of the array
splicedDigits(digits) == SubSeq(digits, 1, Len(digits) - Min(Len(digits), RecentLen))

\* what digits.slice(-10) leaves in the array it is called on: slice copies
slicedDigits(digits) == digits

\* the windows after the loop: the array of each index whose attempt got to
\* analyzeDigitPattern has been sliced there
windowsAfterLoop(indexes, tasks) ==
    [s \in DOMAIN lastDigits |->
        IF \E i \in DOMAIN tasks : /\ indexes[i].symbol = s
                                    /\ tasks[i].state # "skipped"
                                    /\ Len(lastDigits[s]) >= MinDigits
        THEN slicedDigits(lastDigits[s])
        ELSE lastDigits[s]]

\* the timer callback: generateSignalsForAllIndexes is entered and awaits
\* storage.getVolatilityIndexes(). windows and ticks are history: the digit
\* windows as they are when the callback runs, and the tick events so far.
timerFire(t) ==
    /\ timers[t].due <= now
    /\ Len(cycles) < MaxCycles
    /\ timers' = [timers EXCEPT ![t].due = @ + timers[t].period]
    /\ cycles' = Append(cycles, [phase |-> "getVolatilityIndexes", started |-> now,
                                 windows |-> lastDigits, ticks |-> ticksSeen,
                                 indexes |-> <<>>, tasks |-> <<>>, generatedCount |-> 0,
                                 maxSignals |-> 0, intervalMinutes |-> 0,
                                 entryAfterConsecutiveCount |-> 0, emitted |-> 0])
    /\ UNCHANGED <<options, now, lastSignalTime, signals, performance, published>>

RemoveAt(seq, c) == SubSeq(seq, 1, c - 1) \o SubSeq(seq, c + 1, Len(seq))

\* indexesSettled whose rejection escapes the callback and takes the timer down
indexesSettledKillsTimer(c, ok, indexes) ==
    /\ cycles[c].phase = "getVolatilityIndexes"
    /\ cycles' = IF ok
                 THEN [cycles EXCEPT ![c].phase = "getStrategyPerformance",
                                     ![c].indexes = indexes]
                 ELSE RemoveAt(cycles, c)
    /\ timers' = IF ok THEN timers ELSE <<>>
    /\ UNCHANGED <<options, now, lastSignalTime, signals, performance, published>>

\* getVolatilityIndexes() settles: the list, or a rejection that the catch of
\* generateSignalsForAllIndexes logs
indexesSettled(c, ok, indexes) ==
    /\ cycles[c].phase = "getVolatilityIndexes"
    /\ cycles' = IF ok
                 THEN [cycles EXCEPT ![c].phase = "getStrategyPerformance",
                                     ![c].indexes = indexes]
                 ELSE RemoveAt(cycles, c)
    /\ UNCHANGED <<options, timers, now, lastSignalTime, signals, performance, published>>

\* getStrategyPerformance() settles: on a rejection the catch logs, on an
\* empty list of indexes the cycle returns (133-136), else the loop over the
\* indexes runs
strategiesSettled(c, ok) ==
    /\ cycles[c].phase = "getStrategyPerformance"
    /\ IF ok /\ Len(cycles[c].indexes) # 0
       THEN LET tasks == indexLoop(cycles[c].indexes, performance, 1, 0,
                                   [i \in 1..Len(cycles[c].indexes) |-> Skipped])
            IN /\ cycles' = [cycles EXCEPT
                                ![c].phase = "emitting",
                                ![c].maxSignals = options.maxSignals,
                                ![c].intervalMinutes = options.intervalMinutes,
                                ![c].entryAfterConsecutiveCount =
                                    options.entryAfterConsecutiveCount,
                                ![c].tasks = tasks]
               /\ lastDigits' = windowsAfterLoop(cycles[c].indexes, tasks)
       ELSE /\ cycles' = RemoveAt(cycles, c)
            /\ UNCHANGED lastDigits
    /\ UNCHANGED <<options, timers, now, lastSignalTime, signals, performance, published>>

\* this.emit('new_signal', { ...signal, emailSent }); return true
emitSignal(c, i, emailSent) ==
    /\ published' = Append(published,
                           [id |-> cycles[c].tasks[i].id,
                            volatilityIndexId |-> cycles[c].indexes[i].id,
                            emailSent |-> emailSent])
    /\ cycles' = [cycles EXCEPT ![c].tasks[i].state = "resolved",
                                ![c].tasks[i].emailSent = emailSent,
                                ![c].emitted = @ + 1]

\* createSignalSettled whose catch returns true: the then-callback counts the
\* failed attempt as a created signal
createSignalSettledCountsFailure(c, i, ok) ==
    /\ cycles[c].phase = "emitting"
    /\ cycles[c].tasks[i].state = "createSignal"
    /\ IF ok
       THEN /\ signals' = Append(signals,
                                 [volatilityIndexId |-> cycles[c].indexes[i].id,
                                  strategyName |-> cycles[c].tasks[i].strategyName,
                                  predictedSignal |-> cycles[c].tasks[i].predictedSignal,
                                  emailSent |-> FALSE])
            /\ cycles' = [cycles EXCEPT ![c].tasks[i].state = "sendSignalEmail",
                                        ![c].tasks[i].id = Len(signals) + 1]
       ELSE /\ cycles' = [cycles EXCEPT ![c].tasks[i].state = "resolved"]
            /\ UNCHANGED signals
    /\ UNCHANGED <<options, timers, now, lastSignalTime, performance, published>>

\* createSignalSettled whose rejection abandons the attempts of the cycle that
\* have not emitted yet
createSignalSettledAbandonsOthers(c, i, ok) ==
    /\ cycles[c].phase = "emitting"
    /\ cycles[c].tasks[i].state = "createSignal"
    /\ IF ok
       THEN /\ signals' = Append(signals,
                                 [volatilityIndexId |-> cycles[c].indexes[i].id,
                                  strategyName |-> cycles[c].tasks[i].strategyName,
                                  predictedSignal |-> cycles[c].tasks[i].predictedSignal,
                                  emailSent |-> FALSE])
            /\ cycles' = [cycles EXCEPT ![c].tasks[i].state = "sendSignalEmail",
                                        ![c].tasks[i].id = Len(signals) + 1]
       ELSE /\ cycles' = [cycles EXCEPT ![c].tasks =
                             [j \in DOMAIN cycles[c].tasks |->
                                 IF cycles[c].tasks[j].state \in {"skipped", "settled", "resolved"}
                                 THEN cycles[c].tasks[j]
                                 ELSE [cycles[c].tasks[j] EXCEPT !.state = "settled"]]]
            /\ UNCHANGED signals
    /\ UNCHANGED <<options, timers, now, lastSignalTime, performance, published>>

\* storage.createSignal settles: the stored signal, or a rejection that the
\* catch of generateSignalForStrategy turns into false
createSignalSettled(c, i, ok) ==
    /\ cycles[c].phase = "emitting"
    /\ cycles[c].tasks[i].state = "createSignal"
    /\ IF ok
       THEN /\ signals' = Append(signals,
                                 [volatilityIndexId |-> cycles[c].indexes[i].id,
                                  strategyName |-> cycles[c].tasks[i].strategyName,
                                  predictedSignal |-> cycles[c].tasks[i].predictedSignal,
                                  emailSent |-> FALSE])
            /\ cycles' = [cycles EXCEPT ![c].tasks[i].state = "sendSignalEmail",
                                        ![c].tasks[i].id = Len(signals) + 1]
       ELSE /\ cycles' = [cycles EXCEPT ![c].tasks[i].state = "settled"]
            /\ UNCHANGED signals
    /\ UNCHANGED <<options, timers, now, lastSignalTime, performance, published>>

\* sendSignalEmailSettled that returns false when the notification failed:
\* no event, no cooldown
sendSignalEmailSettledGivesUp(c, i, emailSent) ==
    /\ cycles[c].phase = "emitting"
    /\ cycles[c].tasks[i].state = "sendSignalEmail"
    /\ cycles' = [cycles EXCEPT ![c].tasks[i].state =
                                   IF emailSent THEN "updateSignal" ELSE "settled"]
    /\ UNCHANGED published
    /\ UNCHANGED <<options, timers, now, lastSignalTime, signals, performance>>

\* sendSignalEmail settles with its boolean: true goes on to updateSignal,
\* false straight to the event
sendSignalEmailSettled(c, i, emailSent) ==
    /\ cycles[c].phase = "emitting"
    /\ cycles[c].tasks[i].state = "sendSignalEmail"
    /\ IF emailSent
       THEN /\ cycles' = [cycles EXCEPT ![c].tasks[i].state = "updateSignal"]
            /\ UNCHANGED published
       ELSE emitSignal(c, i, FALSE)
    /\ UNCHANGED <<options, timers, now, lastSignalTime, signals, performance>>

\* storage.updateSignal(signal.id, { emailSent: true }) settles
updateSignalSettled(c, i, ok) ==
    /\ cycles[c].phase = "emitting"
    /\ cycles[c].tasks[i].state = "updateSignal"
    /\ IF ok
       THEN /\ signals' = [signals EXCEPT ![cycles[c].tasks[i].id].emailSent = TRUE]
            /\ emitSignal(c, i, TRUE)
       ELSE /\ cycles' = [cycles EXCEPT ![c].tasks[i].state = "settled"]
            /\ UNCHANGED <<signals, published>>
    /\ UNCHANGED <<options, timers, now, lastSignalTime, performance>>

\* thenCreated that records the time its cycle started instead of new Date()
thenCreatedAtCycleStart(c, i) ==
    /\ cycles[c].phase = "emitting"
    /\ cycles[c].tasks[i].state = "resolved"
    /\ cycles' = [cycles EXCEPT ![c].tasks[i].state = "settled",
                                ![c].generatedCount = @ + 1]
    /\ lastSignalTime' =
          [s \in DOMAIN lastSignalTime \cup {cycles[c].indexes[i].symbol} |->
              IF s = cycles[c].indexes[i].symbol THEN cycles[c].started
              ELSE lastSignalTime[s]]
    /\ UNCHANGED <<options, timers, now, signals, performance, published>>

\* thenCreated attached to the stored signal instead of the finished attempt:
\* it also runs while updateSignal is pending, before the event
thenCreatedEarly(c, i) ==
    /\ cycles[c].phase = "emitting"
    /\ cycles[c].tasks[i].state \in {"resolved", "updateSignal"}
    /\ cycles' = [cycles EXCEPT ![c].tasks[i].state = "settled",
                                ![c].generatedCount = @ + 1]
    /\ lastSignalTime' =
          [s \in DOMAIN lastSignalTime \cup {cycles[c].indexes[i].symbol} |->
              IF s = cycles[c].indexes[i].symbol THEN now ELSE lastSignalTime[s]]
    /\ UNCHANGED <<options, timers, now, signals, performance, published>>

\* .then(created => { generatedCount++; lastSignalTime.set(symbol, new Date()) })
thenCreated(c, i) ==
    /\ cycles[c].phase = "emitting"
    /\ cycles[c].tasks[i].state = "resolved"
    /\ cycles' = [cycles EXCEPT ![c].tasks[i].state = "settled",
                                ![c].generatedCount = @ + 1]
    /\ lastSignalTime' =
          [s \in DOMAIN lastSignalTime \cup {cycles[c].indexes[i].symbol} |->
              IF s = cycles[c].indexes[i].symbol THEN now ELSE lastSignalTime[s]]
    /\ UNCHANGED <<options, timers, now, signals, performance, published>>

\* cycleDone with Promise.race for Promise.all: the cycle returns when the
\* first of its attempts is over
cycleDoneAny(c) ==
    /\ cycles[c].phase = "emitting"
    /\ \E i \in DOMAIN cycles[c].tasks : cycles[c].tasks[i].state = "settled"
    /\ cycles' = RemoveAt(cycles, c)
    /\ UNCHANGED <<options, timers, now, lastSignalTime, signals, performance, published>>

\* await Promise.all(signalPromises) resumes and the cycle returns
cycleDone(c) ==
    /\ cycles[c].phase = "emitting"
    /\ \A i \in DOMAIN cycles[c].tasks : cycles[c].tasks[i].state \in {"skipped", "settled"}
    /\ cycles' = RemoveAt(cycles, c)
    /\ UNCHANGED <<options, timers, now, lastSignalTime, signals, performance, published>>

\* a microtask is queued: a then-callback, or the resumption after
\* Promise.all. Microtasks run before the next timer, I/O or request callback.
MicrotaskPending ==
    \E c \in DOMAIN cycles :
        /\ cycles[c].phase = "emitting"
        /\ \/ \E i \in DOMAIN cycles[c].tasks : cycles[c].tasks[i].state = "resolved"
           \/ \A i \in DOMAIN cycles[c].tasks :
                 cycles[c].tasks[i].state \in {"skipped", "settled"}

\* a timer callback is due
TimerDue == \E t \in DOMAIN timers : timers[t].due <= now

\* a minute passes, up to the last minute of the clock
advanceTimeTo(last) ==
    /\ now < last
    /\ ~TimerDue
    /\ now' = now + 1
    /\ UNCHANGED <<options, timers, lastSignalTime, cycles, signals, performance, published>>

advanceTime == advanceTimeTo(MaxTime)

(***************************************************************************)
(* Specification of the engine: constructed over a store whose performance *)
(* table is one of PerformanceTables. The tick listener is registered by   *)
(* the constructor and runs whether or not the scheduler is started, so    *)
(* the windows start as the ticks received so far have left them: WarmLen  *)
(* digits for both symbols, or for VOL10 alone.                            *)
(***************************************************************************)
Init ==
    /\ \E warm \in {Symbols, {"VOL10"}} :
          /\ lastDigits = [s \in warm |-> WarmWindow(WarmLen)]
          /\ observed = [s \in Symbols |->
                            IF s \in warm THEN WarmWindow(WarmLen) ELSE <<>>]
    /\ ticksSeen = 0
    /\ NoAnalysis
    /\ Constructed
    /\ performance \in PerformanceTables

Called == calls < MaxCalls /\ calls' = calls + 1
CalledAs(op) == Called /\ lastCall' = [NoCall EXCEPT !.op = op, !.seq = calls + 1]
SetOptions == ~MicrotaskPending /\ (\E partial \in OptionUpdates : setOptions(partial))
                 /\ CalledAs("setOptions")
                 /\ UNCHANGED <<stopped, appliedOptions, startedAt, aborted, tickVars, analysisVars>>
Start == ~MicrotaskPending /\ start /\ CalledAs("start")
            /\ stopped' = FALSE /\ appliedOptions' = options /\ startedAt' = now
            /\ UNCHANGED <<aborted, tickVars, analysisVars>>
Stop == ~MicrotaskPending /\ stop /\ CalledAs("stop")
           /\ stopped' = TRUE
           /\ UNCHANGED <<appliedOptions, startedAt, aborted, tickVars, analysisVars>>
\* the ticks delivered while cycles run: a price ending in 9 for VOL10
CycleTickData == [hasTick : {TRUE}, symbol : {"VOL10"}, lastChar : {"9"}]
CycleTick ==
    /\ ~MicrotaskPending
    /\ ticksSeen < MaxCycleTicks
    /\ \E data \in CycleTickData : handleTick(data)
    /\ UNCHANGED <<analysisVars, schedVars>>
AdvanceTime == ~MicrotaskPending /\ advanceTime /\ UNCHANGED <<calls, histVars, aborted, tickVars, analysisVars>>
TimerFire == ~MicrotaskPending /\ (\E t \in DOMAIN timers : timerFire(t))
                /\ UNCHANGED <<calls, histVars, aborted, tickVars, analysisVars>>
IndexesSettled ==
    /\ ~MicrotaskPending
    /\ \E c \in DOMAIN cycles, ok \in BOOLEAN, indexes \in IndexLists :
          /\ indexesSettled(c, ok, indexes)
          /\ aborted' = IF Len(cycles') < Len(cycles) THEN cycles[c].started ELSE aborted
    /\ UNCHANGED <<calls, histVars, tickVars, analysisVars>>
StrategiesSettled ==
    /\ ~MicrotaskPending
    /\ \E c \in DOMAIN cycles, ok \in BOOLEAN :
          /\ strategiesSettled(c, ok)
          /\ aborted' = IF Len(cycles') < Len(cycles) THEN cycles[c].started ELSE aborted
    /\ UNCHANGED <<calls, histVars, observed, ticksSeen, analysisVars>>
CreateSignalSettled ==
    ~MicrotaskPending /\ (\E c \in DOMAIN cycles : \E i \in DOMAIN cycles[c].tasks, ok \in BOOLEAN :
        createSignalSettled(c, i, ok))
        /\ UNCHANGED <<calls, histVars, aborted, tickVars, analysisVars>>
SendSignalEmailSettled ==
    ~MicrotaskPending /\ (\E c \in DOMAIN cycles : \E i \in DOMAIN cycles[c].tasks, sent \in BOOLEAN :
        sendSignalEmailSettled(c, i, sent))
        /\ UNCHANGED <<calls, histVars, aborted, tickVars, analysisVars>>
UpdateSignalSettled ==
    ~MicrotaskPending /\ (\E c \in DOMAIN cycles : \E i \in DOMAIN cycles[c].tasks, ok \in BOOLEAN :
        updateSignalSettled(c, i, ok))
        /\ UNCHANGED <<calls, histVars, aborted, tickVars, analysisVars>>
ThenCreated ==
    (\E c \in DOMAIN cycles : \E i \in DOMAIN cycles[c].tasks : thenCreated(c, i))
        /\ UNCHANGED <<calls, histVars, aborted, tickVars, analysisVars>>
CycleDone == (\E c \in DOMAIN cycles : cycleDone(c))
                /\ UNCHANGED <<calls, histVars, aborted, tickVars, analysisVars>>

Next ==
    \/ SetOptions
    \/ Start
    \/ Stop
    \/ CycleTick
    \/ AdvanceTime
    \/ TimerFire
    \/ IndexesSettled
    \/ StrategiesSettled
    \/ CreateSignalSettled
    \/ SendSignalEmailSettled
    \/ UpdateSignalSettled
    \/ ThenCreated
    \/ CycleDone

Spec == Init /\ [][Next]_vars

symbolOf(id) == Indexes[CHOOSE k \in DOMAIN Indexes : Indexes[k].id = id].symbol

\* C1: in every generation cycle the number of signals emitted (persisted
\* and published) is at most maxSignals, also when the emission attempts of
\* the cycle run concurrently.
C1_AtMostMaxSignalsPerCycle ==
    \A c \in DOMAIN cycles :
        cycles[c].phase = "emitting" => cycles[c].emitted <= cycles[c].maxSignals

\* C2: no signal is emitted for an instrument while
\* now - lastSignalTime[instrument] < intervalMinutes, under any sequence of
\* cycles: two emissions for an instrument are never closer than that.
C2_NoEmissionInCooldown ==
    [][Len(published') > Len(published) =>
          ~inCooldown(symbolOf(published'[Len(published')].volatilityIndexId))]_vars

\* C27: at most one generation cycle is in flight at any time: the timer
\* starts no cycle while an earlier one still awaits its store, notify or
\* publish steps.
C27_OneCycleInFlight == Len(cycles) <= 1

\* C28: every signal createSignal stored is published as a new_signal event
\* once its attempt is over, whatever the outcome of sendSignalEmail and
\* updateSignal, and its instrument's lastSignalTime is set.
C28_PersistedIsPublished ==
    \A c \in DOMAIN cycles :
        cycles[c].phase = "emitting" =>
            \A i \in DOMAIN cycles[c].tasks :
                (cycles[c].tasks[i].state = "settled" /\ cycles[c].tasks[i].id # 0) =>
                    /\ Cardinality({k \in DOMAIN published :
                                       published[k].id = cycles[c].tasks[i].id}) = 1
                    /\ cycles[c].indexes[i].symbol \in DOMAIN lastSignalTime

(***************************************************************************)
(* Specification of the strategy choice alone: the performance table is    *)
(* any list of up to MaxRecords records for the two indexes, and the index *)
(* loop's grouping and findBestStrategy are applied for each index.        *)
(***************************************************************************)
BestRates == {"62%", "68%", "75%"}
BestRecords ==
    [volatilityIndexId : {1, 2}, strategyName : {"Even/Odd", "Candlestick"},
     winRate : BestRates]
\* the store numbers the records in insertion order
BestTables ==
    UNION {{[i \in 1..n |-> [id |-> i,
                              volatilityIndexId |-> f[i].volatilityIndexId,
                              strategyName |-> f[i].strategyName,
                              winRate |-> f[i].winRate]] : f \in [1..n -> BestRecords]}
           : n \in 0..MaxRecords}

InitBest ==
    /\ performance \in BestTables
    /\ lastDigits = <<>>
    /\ observed = [s \in Symbols |-> <<>>]
    /\ ticksSeen = 0
    /\ NoAnalysis
    /\ Constructed

\* lines 166-174 for one index of the loop
FindBestStrategy ==
    /\ \E k \in DOMAIN Indexes :
          /\ Indexes[k].id \notin DOMAIN bestStrategy
          /\ bestStrategy' =
                bestStrategy @@
                (Indexes[k].id :> findBestStrategy(indexStrategies(performance, Indexes[k].id)))
    /\ UNCHANGED <<input, call, result, tickVars, schedVars>>

NextBest == FindBestStrategy

SpecBest == InitBest /\ [][NextBest]_vars

\* positions of the performance table that hold a record of the index
RecordsOf(id) == {p \in DOMAIN performance : performance[p].volatilityIndexId = id}
Percent == ("62%" :> 62) @@ ("68%" :> 68) @@ ("70%" :> 70) @@ ("75%" :> 75)

\* C11: for each index with at least one performance record the strategy
\* chosen is the record with the highest win-rate percentage, and among
\* several records with that rate the first one of the performance list.
C11_BestIsFirstHighest ==
    \A id \in DOMAIN bestStrategy :
        RecordsOf(id) # {} =>
            \E p \in RecordsOf(id) :
                /\ bestStrategy[id] = performance[p]
                /\ \A q \in RecordsOf(id) :
                      Percent[performance[q].winRate] <= Percent[performance[p].winRate]
                /\ \A q \in RecordsOf(id) :
                      q < p => Percent[performance[q].winRate] < Percent[performance[p].winRate]

\* two records of an index tie for its highest rate behind a lower-rated one
C11_Witness ==
    \E id \in DOMAIN bestStrategy :
        \E p, q, r \in RecordsOf(id) :
            /\ r < p /\ p < q
            /\ bestStrategy[id] = performance[p]
            /\ performance[q].winRate = performance[p].winRate
            /\ Percent[performance[r].winRate] < Percent[performance[p].winRate]

(***************************************************************************)
(* Failures inside a cycle                                                 *)
(***************************************************************************)
\* the step neither starts nor ends a cycle, so cycles keep their positions
SameCycles == Len(cycles') = Len(cycles)
\* in this step createSignal settles for attempt i of cycle c and nothing is stored
CreateFails(c, i) ==
    /\ SameCycles
    /\ cycles[c].tasks[i].state = "createSignal"
    /\ cycles'[c].tasks[i].state # "createSignal"
    /\ signals' = signals
\* an attempt that is over without a stored signal although it had a draft
FailedCreate(t) == t.state = "settled" /\ t.predictedSignal # "" /\ t.id = 0

\* C12: when createSignal fails for an instrument, the instrument's
\* lastSignalTime is not changed, by the failure or by the attempt later, no
\* new_signal event is published for it, and nothing keeps it from being
\* tried at the next cycle.
C12_CreateFailureLeavesNoTrace ==
    [][\A c \in DOMAIN cycles : \A i \in DOMAIN cycles[c].tasks :
          /\ CreateFails(c, i) =>
                /\ lastSignalTime' = lastSignalTime
                /\ published' = published
                /\ cycles'[c].tasks[i].state = "settled"
          /\ (SameCycles /\ cycles[c].tasks[i].state = "settled") =>
                cycles'[c].tasks[i] = cycles[c].tasks[i]]_vars

\* createSignal failed for an instrument in one cycle and the next cycle has
\* called createSignal for the same instrument again
C12_Witness ==
    \E c, d \in DOMAIN cycles : \E i \in DOMAIN cycles[c].tasks :
        /\ FailedCreate(cycles[c].tasks[i])
        /\ cycles[d].started > cycles[c].started
        /\ cycles[d].phase = "emitting"
        /\ cycles[d].tasks[i].state = "createSignal"
        /\ cycles[c].indexes[i].symbol \notin DOMAIN lastSignalTime
        /\ published = <<>>

\* C13: a createSignal failure for one instrument leaves every other attempt
\* of the cycle, and every other cycle, as it is: the others go on to be
\* persisted, published and given their cooldown.
C13_FailureLeavesOthersRunning ==
    [][\A c \in DOMAIN cycles : \A i \in DOMAIN cycles[c].tasks :
          CreateFails(c, i) =>
              /\ cycles'[c].phase = "emitting"
              /\ \A j \in DOMAIN cycles[c].tasks :
                    j # i => cycles'[c].tasks[j] = cycles[c].tasks[j]
              /\ \A d \in DOMAIN cycles : d # c => cycles'[d] = cycles[d]]_vars

\* in one cycle createSignal failed for an instrument before the other
\* instrument's signal was stored, and that signal was published and its
\* cooldown recorded
C13_Witness ==
    \E c \in DOMAIN cycles : \E i, j \in DOMAIN cycles[c].tasks :
        /\ FailedCreate(cycles[c].tasks[i])
        /\ cycles[c].tasks[j].state = "settled"
        /\ cycles[c].tasks[j].id = 1
        /\ Len(signals) = 1
        /\ \E k \in DOMAIN published : published[k].id = 1
        /\ cycles[c].indexes[j].symbol \in DOMAIN lastSignalTime
        /\ lastSignalTime[cycles[c].indexes[j].symbol] >= cycles[c].started

\* C14: when sendSignalEmail reports failure for a stored signal, the signal
\* stays stored with emailSent false, the new_signal event is published with
\* emailSent false, and the then-callback sets the instrument's lastSignalTime.
C14_NotifyFailureStillPublishes ==
    [][\A c \in DOMAIN cycles : \A i \in DOMAIN cycles[c].tasks :
          LET t == cycles[c].tasks[i]
          IN /\ (/\ SameCycles
                 /\ t.state = "sendSignalEmail"
                 /\ cycles'[c].tasks[i].state \notin {"sendSignalEmail", "updateSignal"}) =>
                    /\ signals' = signals
                    /\ t.id \in DOMAIN signals
                    /\ signals[t.id].emailSent = FALSE
                    /\ published' = Append(published,
                                           [id |-> t.id,
                                            volatilityIndexId |-> cycles[c].indexes[i].id,
                                            emailSent |-> FALSE])
                    /\ cycles'[c].tasks[i].state = "resolved"
             /\ (SameCycles /\ t.state = "resolved" /\ ~t.emailSent) =>
                    /\ cycles[c].indexes[i].symbol \in DOMAIN lastSignalTime'
                    /\ lastSignalTime'[cycles[c].indexes[i].symbol] = now
                    /\ signals' = signals
                    /\ published' = published]_vars

\* a signal whose notification failed: stored and published with emailSent
\* false, its attempt over, the instrument's lastSignalTime set
C14_Witness ==
    \E c \in DOMAIN cycles : \E i \in DOMAIN cycles[c].tasks :
        LET t == cycles[c].tasks[i]
        IN /\ t.state = "settled"
           /\ t.id \in DOMAIN signals
           /\ ~signals[t.id].emailSent
           /\ \E k \in DOMAIN published : published[k].id = t.id /\ ~published[k].emailSent
           /\ cycles[c].indexes[i].symbol \in DOMAIN lastSignalTime
           /\ lastSignalTime[cycles[c].indexes[i].symbol] >= cycles[c].started

(***************************************************************************)
(* Order of the steps of an emission                                       *)
(***************************************************************************)
\* the step sets or changes the symbol's lastSignalTime
CooldownSet(symbol) ==
    /\ symbol \in DOMAIN lastSignalTime'
    /\ symbol \in DOMAIN lastSignalTime => lastSignalTime'[symbol] # lastSignalTime[symbol]
\* an attempt for the symbol has published its event and its then-callback is due
Emitted(symbol) ==
    \E c \in DOMAIN cycles : \E i \in DOMAIN cycles[c].tasks :
        /\ cycles[c].indexes[i].symbol = symbol
        /\ cycles[c].tasks[i].state = "resolved"
        /\ \E k \in DOMAIN published : published[k].id = cycles[c].tasks[i].id

\* C21: a signal is stored before anything else happens to it; its event is
\* published after it was stored, after sendSignalEmail settled and with the
\* emailSent value the store holds; lastSignalTime is set for an instrument
\* only after the event of its signal was published.
C21_EmissionOrder ==
    [][/\ Len(signals') > Len(signals) =>
             (published' = published /\ lastSignalTime' = lastSignalTime)
       /\ Len(published') > Len(published) =>
             LET event == published'[Len(published')]
             IN /\ event.id \in DOMAIN signals
                /\ signals'[event.id].emailSent = event.emailSent
                /\ signals'[event.id].volatilityIndexId = event.volatilityIndexId
                /\ lastSignalTime' = lastSignalTime
                /\ \E c \in DOMAIN cycles : \E i \in DOMAIN cycles[c].tasks :
                      /\ cycles[c].tasks[i].id = event.id
                      /\ cycles[c].tasks[i].state =
                            IF event.emailSent THEN "updateSignal" ELSE "sendSignalEmail"
       /\ \A symbol \in Symbols : CooldownSet(symbol) => Emitted(symbol)]_vars

\* a signal stored, marked emailSent, published with emailSent true, its
\* instrument's lastSignalTime set a minute after the cycle started
C21_Witness ==
    \E c \in DOMAIN cycles : \E i \in DOMAIN cycles[c].tasks :
        LET t == cycles[c].tasks[i]
        IN /\ t.state = "settled"
           /\ t.id \in DOMAIN signals
           /\ signals[t.id].emailSent
           /\ \E k \in DOMAIN published : published[k].id = t.id /\ published[k].emailSent
           /\ cycles[c].indexes[i].symbol \in DOMAIN lastSignalTime
           /\ lastSignalTime[cycles[c].indexes[i].symbol] > cycles[c].started

\* C22: an instrument's lastSignalTime changes only when an emission for it
\* succeeded, and then to the current time; entries never decrease and are
\* never removed, whatever cycles, ticks, start, stop and setOptions do.
C22_CooldownMonotone ==
    [][/\ \A symbol \in DOMAIN lastSignalTime :
             /\ symbol \in DOMAIN lastSignalTime'
             /\ lastSignalTime'[symbol] >= lastSignalTime[symbol]
       /\ \A symbol \in DOMAIN lastSignalTime' :
             (symbol \notin DOMAIN lastSignalTime
                 \/ lastSignalTime'[symbol] # lastSignalTime[symbol]) =>
                 /\ Emitted(symbol)
                 /\ lastSignalTime'[symbol] = now]_vars

\* two cycles in flight have both emitted for an instrument: the then-callback
\* of the later cycle has set lastSignalTime at minute 2, that of the earlier
\* cycle is about to set it again
C22_Witness ==
    \E c, d \in DOMAIN cycles : \E i \in DOMAIN cycles[c].tasks :
        /\ cycles[c].started < cycles[d].started
        /\ cycles[c].phase = "emitting" /\ cycles[d].phase = "emitting"
        /\ cycles[c].tasks[i].state = "resolved"
        /\ cycles[d].tasks[i].state = "settled"
        /\ cycles[d].tasks[i].id # 0
        /\ cycles[c].indexes[i].symbol \in DOMAIN lastSignalTime
        /\ lastSignalTime[cycles[c].indexes[i].symbol] = 2

\* the order of the stages of an attempt
Stage ==
    ("skipped" :> 0) @@ ("createSignal" :> 1) @@ ("sendSignalEmail" :> 2) @@
    ("updateSignal" :> 3) @@ ("resolved" :> 4) @@ ("settled" :> 5)

\* C26: a cycle returns only when each of its attempts is over; an attempt
\* only moves forward through its stages and stays over once it is over, so a
\* failed attempt is not made again in its cycle, and the attempts of a cycle
\* are for different instruments.
C26_CycleWaitsForAttempts ==
    [][/\ Len(cycles') < Len(cycles) =>
             \E c \in DOMAIN cycles :
                 /\ cycles' = RemoveAt(cycles, c)
                 /\ cycles[c].phase = "emitting" =>
                       \A i \in DOMAIN cycles[c].tasks :
                           cycles[c].tasks[i].state \in {"skipped", "settled"}
       /\ SameCycles =>
             \A c \in DOMAIN cycles :
                 cycles[c].phase = "emitting" =>
                     /\ cycles'[c].phase = "emitting"
                     /\ \A i \in DOMAIN cycles[c].tasks :
                           /\ Stage[cycles'[c].tasks[i].state] >= Stage[cycles[c].tasks[i].state]
                           /\ cycles[c].tasks[i].state \in {"skipped", "settled"} =>
                                 cycles'[c].tasks[i] = cycles[c].tasks[i]
                     /\ \A i, j \in DOMAIN cycles[c].tasks :
                           i # j => cycles[c].indexes[i].id # cycles[c].indexes[j].id]_vars

\* a minute after it started a cycle is still in flight: one of its attempts
\* failed at createSignal, the other still waits for sendSignalEmail
C26_Witness ==
    \E c \in DOMAIN cycles : \E i, j \in DOMAIN cycles[c].tasks :
        /\ FailedCreate(cycles[c].tasks[i])
        /\ cycles[c].tasks[j].state = "sendSignalEmail"
        /\ now > cycles[c].started

(***************************************************************************)
(* The windows and the cycle                                               *)
(***************************************************************************)
\* the step in which cycle c runs its loop over the indexes
LoopRuns(c) ==
    /\ SameCycles
    /\ cycles[c].phase = "getStrategyPerformance"
    /\ cycles'[c].phase = "emitting"
\* the window of the symbol among the windows w
WindowIn(w, symbol) == IF symbol \in DOMAIN w THEN w[symbol] ELSE <<>>

\* C23: the digits a cycle analyses for an instrument are the instrument's
\* window as it was when the timer callback started the cycle: a tick that
\* arrives after that does not reach the cycle's analysis.
C23_AnalysesWindowOfCycleStart ==
    [][\A c \in DOMAIN cycles :
          LoopRuns(c) =>
              \A i \in DOMAIN cycles'[c].tasks :
                  cycles'[c].tasks[i].state # "skipped" =>
                      cycles'[c].tasks[i].digits =
                          WindowIn(cycles[c].windows, cycles[c].indexes[i].symbol)]_vars

\* C24: no step of a cycle changes a digit window, only a tick does; the
\* loop analyses the array it reads and leaves it as it is; with no tick
\* since a cycle started the windows are those of its start.
C24_CycleLeavesWindows ==
    [][/\ ticksSeen' = ticksSeen => lastDigits' = lastDigits
       /\ \A c \in DOMAIN cycles :
             /\ LoopRuns(c) =>
                   \A i \in DOMAIN cycles'[c].tasks :
                       cycles'[c].tasks[i].state # "skipped" =>
                           /\ cycles'[c].tasks[i].digits = window(cycles[c].indexes[i].symbol)
                           /\ WindowIn(lastDigits', cycles[c].indexes[i].symbol) =
                                  cycles'[c].tasks[i].digits
             /\ cycles[c].ticks = ticksSeen => lastDigits = cycles[c].windows]_vars

\* a minute after a cycle started, with no tick since, its attempt for an
\* instrument has drawn a signal from the window and stored it, and the
\* window is the one of the cycle's start
C24_Witness ==
    \E c \in DOMAIN cycles :
        /\ cycles[c].phase = "emitting"
        /\ cycles[c].ticks = ticksSeen
        /\ now > cycles[c].started
        /\ \E i \in DOMAIN cycles[c].tasks :
              /\ cycles[c].tasks[i].id # 0
              /\ Len(cycles[c].tasks[i].digits) >= MinDigits
              /\ window(cycles[c].indexes[i].symbol) = cycles[c].tasks[i].digits
              /\ cycles[c].windows = lastDigits

\* C25: a cycle that returns before its loop, because listing the indexes or
\* the performance records failed or no index is listed, stores and publishes
\* nothing and sets no lastSignalTime; the other cycles, the options and the
\* timer stay as they are, so the timer goes on starting cycles.
C25_ListingFailureIsolated ==
    [][Len(cycles') < Len(cycles) =>
          \E c \in DOMAIN cycles :
              /\ cycles' = RemoveAt(cycles, c)
              /\ cycles[c].phase # "emitting" =>
                    /\ cycles[c].tasks = <<>>
                    /\ cycles[c].emitted = 0
                    /\ signals' = signals
                    /\ published' = published
                    /\ lastSignalTime' = lastSignalTime
                    /\ options' = options
                    /\ timers' = timers
                    /\ stopped' = stopped
                    /\ ~stopped => Len(timers') = 1]_vars

\* the cycle of minute 1 returned before its loop, and the cycle the timer
\* started at minute 2 has stored a signal
C25_Witness ==
    /\ aborted = 1
    /\ Len(cycles) = 1
    /\ cycles[1].started = 2
    /\ cycles[1].phase = "emitting"
    /\ \E i \in DOMAIN cycles[1].tasks : cycles[1].tasks[i].id # 0
    /\ Len(timers) = 1

\* the claims' reading of the strategy selected for an index: the name of its
\* first record with the highest percentage
SelectedName(id) ==
    LET p == CHOOSE p \in RecordsOf(id) :
                 /\ \A q \in RecordsOf(id) :
                       Percent[performance[q].winRate] <= Percent[performance[p].winRate]
                 /\ \A q \in RecordsOf(id) :
                       q < p => Percent[performance[q].winRate] < Percent[performance[p].winRate]
    IN performance[p].strategyName
Implemented == {"Even/Odd", "Over/Under", "Matches/Differs"}
NotApplicable(id) == RecordsOf(id) = {} \/ SelectedName(id) \notin Implemented

\* C20: for an instrument with no performance record, or whose selected
\* strategy is none of Even/Odd, Over/Under and Matches/Differs, no cycle
\* calls createSignal or sendSignalEmail, nothing is stored or published,
\* and its lastSignalTime is never set.
C20_NotApplicableIsSkipped ==
    \A k \in DOMAIN Indexes :
        NotApplicable(Indexes[k].id) =>
            /\ \A c \in DOMAIN cycles :
                  cycles[c].phase = "emitting" =>
                      /\ cycles[c].tasks[k].state \in {"skipped", "settled"}
                      /\ cycles[c].tasks[k].id = 0
                      /\ cycles[c].tasks[k].predictedSignal = ""
            /\ \A n \in DOMAIN signals : signals[n].volatilityIndexId # Indexes[k].id
            /\ \A n \in DOMAIN published : published[n].volatilityIndexId # Indexes[k].id
            /\ Indexes[k].symbol \notin DOMAIN lastSignalTime

\* a cycle has run its loop over an instrument without records and over one
\* whose selected strategy is Candlestick, on a window from which
\* Matches/Differs would have drawn a signal
C20_Witness ==
    \E c \in DOMAIN cycles : \E j, k \in DOMAIN Indexes :
        /\ cycles[c].phase = "emitting"
        /\ RecordsOf(Indexes[j].id) = {}
        /\ cycles[c].tasks[j].state = "skipped"
        /\ RecordsOf(Indexes[k].id) # {}
        /\ SelectedName(Indexes[k].id) = "Candlestick"
        /\ cycles[c].tasks[k].state = "settled"
        /\ cycles[c].tasks[k].strategyName = "Candlestick"
        /\ signalDraft(window(Indexes[k].symbol), "Matches/Differs",
                       cycles[c].entryAfterConsecutiveCount) # Null

(***************************************************************************)
(* Specification of the control surface: the settings route beside the     *)
(* direct calls of setOptions, start and stop, over the same timer and     *)
(* cycles. No tick arrives meanwhile, and the store settles the calls of a *)
(* cycle before the next timer callback runs.                              *)
(***************************************************************************)
\* the request bodies: valid ones, and ones with a field below its range,
\* above it or not a number, alone or beside a valid field
SettingsBodies ==
    {("intervalMinutes" :> 1),
     ("intervalMinutes" :> 2),
     ("maxSignals" :> 10) @@ ("intervalMinutes" :> 1),
     ("maxSignals" :> 11) @@ ("intervalMinutes" :> 1),
     ("intervalMinutes" :> 61),
     ("intervalMinutes" :> NaN),
     ("entryAfterConsecutiveCount" :> 0) @@ ("intervalMinutes" :> 2)}

PutSettings ==
    /\ ~MicrotaskPending
    /\ \E settings \in SettingsBodies : putSettings(settings)
    /\ Called
    /\ IF lastCall'.status = 200
       THEN stopped' = FALSE /\ appliedOptions' = options' /\ startedAt' = now
       ELSE UNCHANGED <<stopped, appliedOptions, startedAt>>
    /\ UNCHANGED <<aborted, tickVars, analysisVars>>

\* a timer callback that finds no cycle in flight
TimerFireIdle == cycles = <<>> /\ TimerFire

NextControl ==
    \/ PutSettings
    \/ SetOptions
    \/ Start
    \/ Stop
    \/ AdvanceTime
    \/ TimerFireIdle
    \/ IndexesSettled
    \/ StrategiesSettled
    \/ CreateSignalSettled
    \/ SendSignalEmailSettled
    \/ UpdateSignalSettled
    \/ ThenCreated
    \/ CycleDone

SpecControl == Init /\ [][NextControl]_vars

\* the step is a call of the method or route op
CallOf(op) == lastCall'.seq # lastCall.seq /\ lastCall'.op = op
\* the step starts a cycle
CycleStarts == Len(cycles') > Len(cycles)
\* a step of a cycle in flight: one of its store or mail calls settles, or one
\* of its callbacks runs
CycleStep ==
    \/ IndexesSettled
    \/ StrategiesSettled
    \/ CreateSignalSettled
    \/ SendSignalEmailSettled
    \/ UpdateSignalSettled
    \/ ThenCreated
    \/ CycleDone

\* C15: from the return of stop() until the next start() no cycle starts;
\* stop() leaves the cycles in flight as they are, and they can go on.
C15_StopPreventsNewCycles ==
    [][/\ stopped => ~CycleStarts
       /\ CallOf("stop") => (stopped' /\ cycles' = cycles)
       /\ (stopped /\ cycles # <<>>) => ENABLED CycleStep]_vars

\* stop() has been called while a cycle was in flight, the cycle is still in
\* flight a minute after it started, and the timer is gone
C15_Witness ==
    /\ stopped
    /\ timers = <<>>
    /\ cycles # <<>>
    /\ cycles[1].phase = "emitting"
    /\ now > cycles[1].started

\* C16: at most one timer is active after any sequence of calls; start(),
\* also while running, leaves exactly one timer, with the intervalMinutes
\* current at that start() as its period; every cycle starts a positive
\* multiple of that period after the last start().
C16_OneTimerWithCurrentInterval ==
    [][/\ Len(timers') <= 1
       /\ (CallOf("start") \/ (CallOf("putSettings") /\ lastCall'.status = 200)) =>
             timers' = <<[period |-> options'.intervalMinutes,
                          due |-> now + options'.intervalMinutes]>>
       /\ \A t \in DOMAIN timers' :
             timers'[t].period = appliedOptions'.intervalMinutes
       /\ CycleStarts =>
             /\ now > startedAt
             /\ (now - startedAt) % appliedOptions.intervalMinutes = 0]_vars

\* a restart with a 2-minute interval at minute 1, after a cycle of the
\* 1-minute timer has emitted: at minute 2 the one timer is due at minute 3
C16_Witness ==
    /\ Len(timers) = 1
    /\ timers[1].period = 2
    /\ timers[1].due = 3
    /\ now = 2
    /\ startedAt = 1
    /\ lastSignalTime # <<>>

\* C17: a cycle that runs its loop after setOptions and before the next
\* start() still uses the maxSignals, intervalMinutes and
\* entryAfterConsecutiveCount of the last start().
C17_SettingsApplyAtRestart ==
    [][\A c \in DOMAIN cycles :
          (SameCycles /\ cycles[c].phase = "getStrategyPerformance"
              /\ cycles'[c].phase = "emitting") =>
              /\ cycles'[c].maxSignals = appliedOptions.maxSignals
              /\ cycles'[c].intervalMinutes = appliedOptions.intervalMinutes
              /\ cycles'[c].entryAfterConsecutiveCount =
                    appliedOptions.entryAfterConsecutiveCount]_vars

(***************************************************************************)
(* Specification of consecutive cycles of one timer: setOptions and start  *)
(* are called, the clock runs a minute longer, and as in the control       *)
(* specification a timer callback finds the previous cycle returned. Both  *)
(* symbols have a window and the store holds the first performance table.  *)
(***************************************************************************)
InitCooldown ==
    /\ lastDigits = [s \in Symbols |-> WarmWindow(WarmLen)]
    /\ observed = [s \in Symbols |-> WarmWindow(WarmLen)]
    /\ ticksSeen = 0
    /\ NoAnalysis
    /\ Constructed
    /\ performance = PerformanceA

AdvanceTimeLate ==
    /\ ~MicrotaskPending
    /\ advanceTimeTo(MaxLateTime)
    /\ UNCHANGED <<calls, histVars, aborted, tickVars, analysisVars>>

NextCooldown ==
    \/ SetOptions
    \/ Start
    \/ AdvanceTimeLate
    \/ TimerFireIdle
    \/ IndexesSettled
    \/ StrategiesSettled
    \/ CreateSignalSettled
    \/ SendSignalEmailSettled
    \/ UpdateSignalSettled
    \/ ThenCreated
    \/ CycleDone

SpecCooldown == InitCooldown /\ [][NextCooldown]_vars

\* C29: with the timer period equal to the cooldown, an instrument whose
\* emission in one cycle completed strictly after that cycle's start is
\* skipped by the loop of the next cycle, which starts one period after it.
C29_SkippedInNextCycle ==
    [][\A c \in DOMAIN cycles :
          (/\ LoopRuns(c)
           /\ Len(timers) = 1
           /\ timers[1].period = options.intervalMinutes
           /\ cycles[c].started >= startedAt + 2 * options.intervalMinutes) =>
              \A i \in DOMAIN cycles'[c].tasks :
                  LET symbol == cycles[c].indexes[i].symbol
                  IN (/\ symbol \in DOMAIN lastSignalTime
                      /\ lastSignalTime[symbol] >
                            cycles[c].started - options.intervalMinutes) =>
                         cycles'[c].tasks[i].state = "skipped"]_vars

\* the claims' reading of the ranges
InRanges(current) ==
    /\ current.maxSignals \in 1..10
    /\ current.intervalMinutes \in 1..60
    /\ current.entryAfterConsecutiveCount \in 1..10
BodyOutOfRange(settings) ==
    \/ "maxSignals" \in DOMAIN settings /\ settings["maxSignals"] \notin 1..10
    \/ "intervalMinutes" \in DOMAIN settings /\ settings["intervalMinutes"] \notin 1..60
    \/ "entryAfterConsecutiveCount" \in DOMAIN settings
          /\ settings["entryAfterConsecutiveCount"] \notin 1..10

\* C18: a settings request with any field out of its range is answered 400
\* and leaves the options and the timers as they were, and the options are
\* within the ranges after every step.
C18_OutOfRangeRejected ==
    [][/\ (CallOf("putSettings") /\ BodyOutOfRange(lastCall'.settings)) =>
             /\ lastCall'.status = 400
             /\ options' = options
             /\ timers' = timers
       /\ InRanges(options) /\ InRanges(options')]_vars

\* a request with maxSignals above its range beside a valid intervalMinutes
\* was rejected while a timer was running: the valid field was not applied
C18_Witness ==
    /\ lastCall.op = "putSettings"
    /\ lastCall.status = 400
    /\ "maxSignals" \in DOMAIN lastCall.settings
    /\ lastCall.settings["maxSignals"] = 11
    /\ lastCall.settings["intervalMinutes"] = 1
    /\ options.intervalMinutes = 5
    /\ Len(timers) = 1

\* a tick without the tick or quote field, or whose price does not end in a
\* decimal digit
Malformed(data) == ~data.hasTick \/ data.lastChar \notin DigitChars

\* C19: a malformed tick is dropped, the windows staying as they are, so
\* that every entry of every window is an integer in 0..9 after every tick.
C19_MalformedTickDropped ==
    [][/\ \A data \in TickData :
             (Malformed(data) /\ handleTick(data)) => lastDigits' = lastDigits
       /\ \A s \in DOMAIN lastDigits' :
             \A k \in DOMAIN lastDigits'[s] : lastDigits'[s][k] \in 0..9]_vars

====
